---- MODULE Spec2Model ----
(***************************************************************************)
(* Model of streamlit_app.py: one run of main() over one uploaded file.   *)
(*                                                                         *)
(* Units.  Coordinates are fixed-point integers in thousandths of a       *)
(* degree (90 degrees = 90000, the zoom threshold 0.01 = 10); signal      *)
(* strength is an integer number of dBm; colours are integers.            *)
(*                                                                         *)
(* A data frame is a record [cols, str, rows]: the ordered column names,  *)
(* the set of columns whose dtype is String, and the rows, each a         *)
(* function from column name to cell.  A cell is [k, v] with k one of     *)
(* "null" (missing), "num" (a number v) or "str" (text that is not a      *)
(* number; only String columns hold such cells).                          *)
(***************************************************************************)
EXTENDS Integers, Sequences, FiniteSets

VARIABLES
    pc,        \* position of main()
    file,      \* the uploaded file: [present, readable, cols, str, rows]
    df,        \* the local variable df of main / validate_and_prepare
    cols3,     \* lat_col, lon_col, rsrp_col of validate_and_prepare
    shown,     \* what the page displays, in order (st.info/error/caption/chart)
    named,     \* the semantic fields the displayed error message names
    view,      \* the ViewState built by compute_view
    ran        \* the pipeline steps executed so far, in order

vars == <<pc, file, df, cols3, shown, named, view, ran>>

-----------------------------------------------------------------------------
(* Bounds of the model                                                     *)

MaxCols == 4
MaxRows == 2

-----------------------------------------------------------------------------
(* Values                                                                  *)

None == "<None>"

NullCell == [k |-> "null", v |-> 0]
StrCell == [k |-> "str", v |-> 0]
Num(n) == [k |-> "num", v |-> n]

Range(s) == {s[i] : i \in DOMAIN s}

NoDf == [cols |-> <<>>, str |-> {}, rows |-> <<>>]
NoView == [zoom |-> 0, lat_sum |-> 0, lon_sum |-> 0, n |-> 0]
NoCols3 == [lat |-> None, lon |-> None, rsrp |-> None]

-----------------------------------------------------------------------------
(* Column Resolver                                                         *)

REQUIRED_COLS ==
    [lat  |-> <<"Latitude", "latitude", "LAT", "lat">>,
     lon  |-> <<"Longitude", "longitude", "LON", "lon">>,
     rsrp |-> <<"RSRP (dBm)", "RSRP", "rsrp_dbm", "rsrp">>]

\* str.lower() on the names the model uses
Lower(s) ==
    CASE s \in {"Latitude", "LATITUDE", "latitude"} -> "latitude"
      [] s \in {"LAT", "lat"} -> "lat"
      [] s \in {"Longitude", "LONGITUDE", "longitude"} -> "longitude"
      [] s \in {"LON", "lon"} -> "lon"
      [] s \in {"RSRP (dBm)", "rsrp (dbm)"} -> "rsrp (dbm)"
      [] s \in {"RSRP", "rsrp"} -> "rsrp"
      [] OTHER -> s

\* cols_lower = {c.lower(): c for c in df.columns}: a later column replaces
\* an earlier one with the same lower-case name
cols_lower(columns, l) ==
    LET hits == {i \in DOMAIN columns : Lower(columns[i]) = l}
        last == CHOOSE i \in hits : \A j \in hits : j <= i
    IN  columns[last]

RECURSIVE find_from(_, _, _)
find_from(columns, candidates, k) ==
    IF k > Len(candidates) THEN None
    ELSE LET name == candidates[k] IN
         IF name \in Range(columns) THEN name
         ELSE IF \E i \in DOMAIN columns : Lower(columns[i]) = Lower(name)
              THEN cols_lower(columns, Lower(name))
              ELSE find_from(columns, candidates, k + 1)

\* mutant: the first column of the file that matches any alias
find_col_by_column(columns, candidates) ==
    LET hits == {i \in DOMAIN columns :
                    \E k \in DOMAIN candidates : Lower(columns[i]) = Lower(candidates[k])}
    IN  IF hits = {} THEN None
        ELSE columns[CHOOSE i \in hits : \A j \in hits : i <= j]

find_col(columns, candidates) == find_from(columns, candidates, 1)

-----------------------------------------------------------------------------
(* Validator/Cleaner                                                       *)

LatMin == -90000
LatMax == 90000
LonMin == -180000
LonMax == 180000

\* the new name df.rename gives column c
rename_col(c, c3) ==
    IF c = c3.lat THEN "lat"
    ELSE IF c = c3.lon THEN "lon"
    ELSE IF c = c3.rsrp THEN "RSRP (dBm)"
    ELSE c

renamed_columns(columns, c3) ==
    [i \in DOMAIN columns |-> rename_col(columns[i], c3)]

\* polars refuses a rename that leaves two columns with one name
has_duplicate(columns) ==
    \E i, j \in DOMAIN columns : i # j /\ columns[i] = columns[j]

rename(d, c3) ==
    LET new == renamed_columns(d.cols, c3)
        old(n) == CHOOSE c \in Range(d.cols) : rename_col(c, c3) = n
    IN  [cols |-> new,
         str  |-> {rename_col(c, c3) : c \in d.str},
         rows |-> [i \in DOMAIN d.rows |->
                      [n \in Range(new) |-> d.rows[i][old(n)]]]]

not_null(row, subset) == \A c \in subset : row[c].k # "null"

drop_nulls(d, subset) ==
    LET keep(row) == not_null(row, subset)
    IN  [d EXCEPT !.rows = SelectSeq(d.rows, keep)]

\* mutant: the bounds are left out of the range
is_between_open(cell, lo, hi) == cell.k = "num" /\ lo < cell.v /\ cell.v < hi

\* Expr.is_between(lo, hi), closed on both sides
is_between(cell, lo, hi) == cell.k = "num" /\ lo <= cell.v /\ cell.v <= hi

plausible(row) ==
    /\ is_between(row["lat"], LatMin, LatMax)
    /\ is_between(row["lon"], LonMin, LonMax)

filter(d) ==
    [d EXCEPT !.rows = SelectSeq(d.rows, plausible)]

\* mutant: the check for an empty result is lost
height_never_zero(d) == FALSE

\* df.height == 0
height_is_zero(d) == Len(d.rows) = 0

\* a comparison or an arithmetic expression over a String column raises
is_string(d, c) == c \in d.str

\* coerce_numeric: cast(pl.Float64, strict=False) turns text that is not a
\* number into null and raises nothing, so the except branch is never taken.
\* validate_and_prepare never calls it.
coerce_numeric(cell) == IF cell.k = "str" THEN NullCell ELSE cell

-----------------------------------------------------------------------------
(* Color Mapper                                                            *)

RsrpOffset == 135
RsrpWindow == 50
ColorMax == 255

RoundModes == {"half_away_from_zero", "half_to_even"}

\* mutant: t is not clamped
clip_none(x, lo, hi) == x

\* Expr.clip(lo, hi)
clip(x, lo, hi) == IF x < lo THEN lo ELSE IF x > hi THEN hi ELSE x

\* Expr.round() of the exact quotient n / d (d > 0); a tie is rounded away
\* from zero or to even, depending on the polars release
round(n, d, mode) ==
    LET q == n \div d
        rem == n - q * d
    IN  IF 2 * rem < d THEN q
        ELSE IF 2 * rem > d THEN q + 1
        ELSE IF mode = "half_to_even"
             THEN (IF q % 2 = 0 THEN q ELSE q + 1)
             ELSE (IF n >= 0 THEN q + 1 ELSE q)

\* t = ((rsrp + 135) / 50).clip(0, 1), as the numerator over RsrpWindow
t_num(rsrp) == clip(rsrp + RsrpOffset, 0, RsrpWindow)

\* mutant: red grows with the signal, as green does
color_r_inverted(rsrp, mode) == round(ColorMax * t_num(rsrp), RsrpWindow, mode)

color_r(rsrp, mode) == round(ColorMax * (RsrpWindow - t_num(rsrp)), RsrpWindow, mode)
color_g(rsrp, mode) == round(ColorMax * t_num(rsrp), RsrpWindow, mode)

OutCols == <<"lat", "lon", "RSRP (dBm)", "r", "g", "b">>

\* with_columns(t, r, g, b) followed by select
with_colors(d, mode) ==
    LET out(row) ==
            [n \in Range(OutCols) |->
                CASE n = "r" -> Num(color_r(row["RSRP (dBm)"].v, mode))
                  [] n = "g" -> Num(color_g(row["RSRP (dBm)"].v, mode))
                  [] n = "b" -> Num(0)
                  [] OTHER -> row[n]]
    IN  [cols |-> OutCols,
         str  |-> d.str \cap Range(OutCols),
         rows |-> [i \in DOMAIN d.rows |-> out(d.rows[i])]]

-----------------------------------------------------------------------------
(* View Heuristic                                                          *)

Span1 == 10
Span2 == 100
Span3 == 1000
Span4 == 5000

column_values(d, c) == {d.rows[i][c].v : i \in DOMAIN d.rows}
SetMax(S) == CHOOSE x \in S : \A y \in S : y <= x
SetMin(S) == CHOOSE x \in S : \A y \in S : x <= y
RECURSIVE SeqSum(_, _, _)
SeqSum(d, c, i) == IF i = 0 THEN 0 ELSE d.rows[i][c].v + SeqSum(d, c, i - 1)

span_of(d) ==
    LET lat_span == SetMax(column_values(d, "lat")) - SetMin(column_values(d, "lat"))
        lon_span == SetMax(column_values(d, "lon")) - SetMin(column_values(d, "lon"))
    IN  IF lat_span >= lon_span THEN lat_span ELSE lon_span

\* mutant: a span on a threshold stays in the earlier bracket
zoom_of_closed(span) ==
    IF span <= Span1 THEN 15
    ELSE IF span <= Span2 THEN 12
    ELSE IF span <= Span3 THEN 9
    ELSE IF span <= Span4 THEN 6
    ELSE 3

zoom_of(span) ==
    IF span < Span1 THEN 15
    ELSE IF span < Span2 THEN 12
    ELSE IF span < Span3 THEN 9
    ELSE IF span < Span4 THEN 6
    ELSE 3

\* the centre is the pair of means, kept as the sums over the row count
compute_view(d) ==
    [zoom    |-> zoom_of(span_of(d)),
     lat_sum |-> SeqSum(d, "lat", Len(d.rows)),
     lon_sum |-> SeqSum(d, "lon", Len(d.rows)),
     n       |-> Len(d.rows)]

-----------------------------------------------------------------------------
(* The uploaded files the model runs main() on                             *)

ColNames ==
    {"Latitude", "LATITUDE", "latitude", "lat", "Longitude", "lon",
     "rsrp_dbm", "cell_id"}

ColumnLists ==
    {cl \in UNION {[1..n -> ColNames] : n \in 0..MaxCols} : ~has_duplicate(cl)}

\* a cell that is a plausible latitude, longitude and signal strength
DefaultCell == Num(-85)

\* a readable file; the columns read as String are those holding text
FileOf(cl, rs) ==
    [present |-> TRUE, readable |-> TRUE, cols |-> cl,
     str |-> {c \in Range(cl) : \E i \in DOMAIN rs : rs[i][c].k = "str"},
     rows |-> rs]

\* files that vary in their columns: no row, or one row of plausible values
ColumnFiles ==
    {FileOf(cl, <<>>) : cl \in ColumnLists}
    \cup {FileOf(cl, <<[c \in Range(cl) |-> DefaultCell]>>) : cl \in ColumnLists \ {<<>>}}

RowCols == <<"Latitude", "Longitude", "RSRP">>

LatCells ==
    {NullCell, StrCell} \cup {Num(n) : n \in {LatMin - 1, LatMin, LatMax, LatMax + 1, Span1}}
LonCells ==
    {NullCell} \cup {Num(n) : n \in {LonMin - 1, LonMin, LonMax, LonMax + 1,
                                     Span2, Span3, Span4}}
RsrpCells ==
    {NullCell, StrCell} \cup {Num(n) : n \in {-136, -135, -130, -120, -85, -84}}

Row(lat, lon, rsrp) ==
    [c \in Range(RowCols) |->
        CASE c = "Latitude" -> lat [] c = "Longitude" -> lon [] OTHER -> rsrp]

\* rows that differ from the plausible row (0, 0, -100 dBm) in one field
RowOptions ==
    {Row(Num(0), Num(0), Num(-100))}
    \cup {Row(c, Num(0), Num(-100)) : c \in LatCells}
    \cup {Row(Num(0), c, Num(-100)) : c \in LonCells}
    \cup {Row(Num(0), Num(0), c) : c \in RsrpCells}

RowLists == UNION {[1..n -> RowOptions] : n \in 0..MaxRows}

\* files that vary in their rows
RowFiles == {FileOf(RowCols, rs) : rs \in RowLists}

NoFile ==
    [present |-> FALSE, readable |-> FALSE, cols |-> <<>>, str |-> {}, rows |-> <<>>]
\* an upload that is not a Parquet file
BadFile ==
    [present |-> TRUE, readable |-> FALSE, cols |-> <<>>, str |-> {}, rows |-> <<>>]

Files == {NoFile, BadFile} \cup ColumnFiles \cup RowFiles

-----------------------------------------------------------------------------
(* main()                                                                  *)

Init ==
    /\ pc = "upload"
    /\ file \in Files
    /\ df = NoDf
    /\ cols3 = NoCols3
    /\ shown = <<>>
    /\ named = {}
    /\ view = NoView
    /\ ran = <<>>

\* st.error(msg); st.stop()
Fail(msg, step) ==
    /\ shown' = Append(shown, msg)
    /\ pc' = "stopped"
    /\ ran' = Append(ran, step)

Step(next, step) ==
    /\ pc' = next
    /\ ran' = Append(ran, step)

\* the fields the "Missing required columns" message names
message_names(missing) == {"Latitude", "Longitude", "RSRP (dBm)"}

missing_of(c3) ==
    {k \in {"Latitude", "Longitude", "RSRP (dBm)"} :
        \/ k = "Latitude" /\ c3.lat = None
        \/ k = "Longitude" /\ c3.lon = None
        \/ k = "RSRP (dBm)" /\ c3.rsrp = None}

Upload ==
    /\ pc = "upload"
    /\ IF ~file.present
       THEN /\ shown' = Append(shown, "info")
            /\ pc' = "done"
       ELSE /\ pc' = "read"
            /\ UNCHANGED shown
    /\ UNCHANGED <<file, df, cols3, named, view, ran>>

ReadParquet ==
    /\ pc = "read"
    /\ IF ~file.readable
       THEN Fail("error: reading Parquet file", "read") /\ UNCHANGED df
       ELSE IF Len(file.rows) = 0
       THEN Fail("error: file is empty", "read") /\ UNCHANGED df
       ELSE /\ df' = [cols |-> file.cols, str |-> file.str, rows |-> file.rows]
            /\ Step("find_col", "read")
            /\ UNCHANGED shown
    /\ UNCHANGED <<file, cols3, named, view>>

FindCols ==
    /\ pc = "find_col"
    /\ LET c3 == [lat  |-> find_col(df.cols, REQUIRED_COLS.lat),
                  lon  |-> find_col(df.cols, REQUIRED_COLS.lon),
                  rsrp |-> find_col(df.cols, REQUIRED_COLS.rsrp)]
       IN  /\ cols3' = c3
           /\ IF missing_of(c3) # {}
              THEN /\ Fail("error: missing columns", "find_col")
                   /\ named' = message_names(missing_of(c3))
              ELSE /\ Step("rename", "find_col")
                   /\ UNCHANGED <<shown, named>>
    /\ UNCHANGED <<file, df, view>>

Rename ==
    /\ pc = "rename"
    /\ IF has_duplicate(renamed_columns(df.cols, cols3))
       THEN Fail("error: unexpected", "rename") /\ UNCHANGED df
       ELSE /\ df' = rename(df, cols3)
            /\ Step("drop_nulls", "rename")
            /\ UNCHANGED shown
    /\ UNCHANGED <<file, cols3, named, view>>

DropNulls ==
    /\ pc = "drop_nulls"
    /\ df' = drop_nulls(df, {"lat", "lon", "RSRP (dBm)"})
    /\ Step("filter", "drop_nulls")
    /\ UNCHANGED <<file, cols3, shown, named, view>>

Filter ==
    /\ pc = "filter"
    /\ IF is_string(df, "lat") \/ is_string(df, "lon")
       THEN Fail("error: unexpected", "filter") /\ UNCHANGED df
       ELSE /\ df' = filter(df)
            /\ Step("height", "filter")
            /\ UNCHANGED shown
    /\ UNCHANGED <<file, cols3, named, view>>

Height ==
    /\ pc = "height"
    /\ IF height_is_zero(df)
       THEN Fail("error: no valid rows", "height")
       ELSE Step("with_columns", "height") /\ UNCHANGED shown
    /\ UNCHANGED <<file, df, cols3, named, view>>

WithColumns ==
    /\ pc = "with_columns"
    /\ IF is_string(df, "RSRP (dBm)")
       THEN Fail("error: unexpected", "with_columns") /\ UNCHANGED df
       ELSE /\ \E mode \in RoundModes : df' = with_colors(df, mode)
            /\ Step("to_pandas", "with_columns")
            /\ UNCHANGED shown
    /\ UNCHANGED <<file, cols3, named, view>>

ToPandas ==
    /\ pc = "to_pandas"
    /\ \E ok \in BOOLEAN :
          IF ok THEN Step("layer", "to_pandas") /\ UNCHANGED shown
          ELSE Fail("error: convert to pandas", "to_pandas")
    /\ UNCHANGED <<file, df, cols3, named, view>>

Layer ==
    /\ pc = "layer"
    /\ \E ok \in BOOLEAN :
          IF ok THEN Step("compute_view", "layer") /\ UNCHANGED shown
          ELSE Fail("error: visualization", "layer")
    /\ UNCHANGED <<file, df, cols3, named, view>>

ComputeView ==
    /\ pc = "compute_view"
    /\ view' = compute_view(df)
    /\ Step("deck", "compute_view")
    /\ UNCHANGED <<file, df, cols3, shown, named>>

Deck ==
    /\ pc = "deck"
    /\ \E ok \in BOOLEAN :
          IF ok THEN Step("caption", "deck") /\ UNCHANGED shown
          ELSE Fail("error: visualization", "deck")
    /\ UNCHANGED <<file, df, cols3, named, view>>

Caption ==
    /\ pc = "caption"
    /\ shown' = Append(shown, "caption")
    /\ Step("pydeck_chart", "caption")
    /\ UNCHANGED <<file, df, cols3, named, view>>

PydeckChart ==
    /\ pc = "pydeck_chart"
    /\ \E ok \in BOOLEAN :
          IF ok THEN /\ shown' = Append(shown, "chart")
                     /\ Step("done", "pydeck_chart")
          ELSE Fail("error: visualization", "pydeck_chart")
    /\ UNCHANGED <<file, df, cols3, named, view>>

Next ==
    \/ Upload
    \/ ReadParquet
    \/ FindCols
    \/ Rename
    \/ DropNulls
    \/ Filter
    \/ Height
    \/ WithColumns
    \/ ToPandas
    \/ Layer
    \/ ComputeView
    \/ Deck
    \/ Caption
    \/ PydeckChart

Spec == Init /\ [][Next]_vars

-----------------------------------------------------------------------------
(* Properties                                                              *)

Ran(step) == step \in Range(ran)
Shown(msg) == msg \in Range(shown)
Errors ==
    {"error: reading Parquet file", "error: file is empty", "error: missing columns",
     "error: no valid rows", "error: unexpected", "error: convert to pandas",
     "error: visualization"}
Failed == \E e \in Errors : Shown(e)

\* validate_and_prepare returned a record set
Returned == Ran("with_columns") /\ ~Shown("error: unexpected")

AllResolved == Ran("find_col") /\ missing_of(cols3) = {}

\* the three source cells of a row of the uploaded file
SourceCells(row) == <<row[cols3.lat], row[cols3.lon], row[cols3.rsrp]>>
CleanCells(row) == <<row["lat"], row["lon"], row["RSRP (dBm)"]>>

ShouldKeep(row) ==
    LET c == SourceCells(row) IN
    /\ c[1].k # "null" /\ c[2].k # "null" /\ c[3].k # "null"
    /\ -90000 <= c[1].v /\ c[1].v <= 90000
    /\ -180000 <= c[2].v /\ c[2].v <= 180000

ExpectedRows ==
    LET kept == SelectSeq(file.rows, ShouldKeep)
    IN  [i \in DOMAIN kept |-> SourceCells(kept[i])]

\* C1: the rows validate_and_prepare returns are exactly the input rows with
\* no missing value in lat, lon and signal strength and with
\* -90 <= lat <= 90 and -180 <= lon <= 180 (both bounds kept), in their
\* original order.
C1_CleanedRows ==
    Returned => [i \in DOMAIN df.rows |-> CleanCells(df.rows[i])] = ExpectedRows

\* a boundary row is kept while the row before it, just out of range, is dropped
C1_Witness ==
    /\ Returned
    /\ Len(file.rows) = 2 /\ Len(df.rows) = 1
    /\ SourceCells(file.rows[1])[1] = Num(90001)
    /\ df.rows[1]["lat"] = Num(90000)

LaterSteps ==
    {"with_columns", "to_pandas", "layer", "compute_view", "deck", "caption",
     "pydeck_chart"}

\* C2: validate_and_prepare never returns zero rows: when cleaning removes
\* every row the run stops with the NoValidData error, and the color, view
\* and render stages never run on an empty record set.
C2_NeverEmpty ==
    /\ (Ran("height") /\ Len(df.rows) = 0) =>
          /\ pc = "stopped"
          /\ shown = <<"error: no valid rows">>
          /\ \A st \in LaterSteps : ~Ran(st)
    /\ (\E st \in LaterSteps : Ran(st)) => Len(df.rows) > 0

\* cleaning removed every row of a file that had rows
C2_Witness ==
    /\ shown = <<"error: no valid rows">>
    /\ Len(file.rows) > 0
    /\ Len(df.rows) = 0

\* C3: when a field cannot be resolved, validation fails with a
\* MissingColumns error that names the fields that could not be found, and
\* no later pipeline step runs.
C3_MissingColumnsNamed ==
    (Ran("find_col") /\ missing_of(cols3) # {}) =>
        /\ Shown("error: missing columns")
        /\ named = missing_of(cols3)
        /\ Range(ran) \subseteq {"read", "find_col"}

\* C4: a failure in any stage shows an error and halts the run, and neither
\* the legend caption nor the map is shown in a run in which a stage failed;
\* an empty file is reported before column resolution runs.
C4_NoPartialRender ==
    /\ Failed =>
          /\ pc = "stopped"
          /\ ~Shown("caption") /\ ~Shown("chart")
    /\ Shown("error: file is empty") => ~Ran("find_col")
    /\ pc = "stopped" => Failed

HasText(c) == \E i \in DOMAIN file.rows : file.rows[i][c].k = "str"

\* C5: text in the signal-strength column that is no number is treated as
\* missing: the rows holding it are dropped and the pipeline does not fail.
C5_TextDropped ==
    (AllResolved /\ file.str = {cols3.rsrp} /\ pc \in {"stopped", "done"}) =>
        /\ ~Shown("error: unexpected")
        /\ Returned =>
              \A i \in DOMAIN df.rows : coerce_numeric(df.rows[i]["RSRP (dBm)"]).k = "num"

Matches(alias) == \E c \in Range(file.cols) : Lower(c) = Lower(alias)

FirstMatch(candidates) ==
    CHOOSE k \in DOMAIN candidates :
        /\ Matches(candidates[k])
        /\ \A j \in 1..(k - 1) : ~Matches(candidates[j])

Resolves(candidates, got) ==
    IF \A k \in DOMAIN candidates : ~Matches(candidates[k])
    THEN got = None
    ELSE LET alias == candidates[FirstMatch(candidates)] IN
         /\ got \in Range(file.cols)
         /\ Lower(got) = Lower(alias)
         /\ alias \in Range(file.cols) => got = alias

\* C6: find_col returns the column matched by the first alias, in
\* registration order, that matches exactly or ignoring case (the alias
\* itself when it is a column), and None exactly when no alias matches; the
\* outcome depends on the set of columns only, so with "lon" and "Longitude"
\* both present the earlier alias "Longitude" wins in either column order.
C6_FirstAliasWins ==
    Ran("find_col") =>
        /\ Resolves(REQUIRED_COLS.lat, cols3.lat)
        /\ Resolves(REQUIRED_COLS.lon, cols3.lon)
        /\ Resolves(REQUIRED_COLS.rsrp, cols3.rsrp)
        /\ {"lon", "Longitude"} \subseteq Range(file.cols) => cols3.lon = "Longitude"

\* "lon" comes before "Longitude" in the file and "Longitude" is resolved;
\* the latitude is resolved ignoring case
C6_Witness ==
    /\ Ran("find_col")
    /\ \E i, j \in DOMAIN file.cols :
          i < j /\ file.cols[i] = "lon" /\ file.cols[j] = "Longitude"
    /\ cols3.lon = "Longitude"
    /\ cols3.lat = "LATITUDE"

RGB(row) == <<row["r"].v, row["g"].v, row["b"].v>>

\* C7: every returned row with rsrp >= -85 is coloured (0, 255, 0) and every
\* returned row with rsrp <= -135 is coloured (255, 0, 0).
C7_Saturation ==
    Returned =>
        \A i \in DOMAIN df.rows :
            LET rsrp == df.rows[i]["RSRP (dBm)"].v IN
            /\ rsrp >= -85 => RGB(df.rows[i]) = <<0, 255, 0>>
            /\ rsrp <= -135 => RGB(df.rows[i]) = <<255, 0, 0>>

\* one row above the window and one below it, both coloured
C7_Witness ==
    /\ Returned
    /\ Len(df.rows) = 2
    /\ df.rows[1]["RSRP (dBm)"].v = -84 /\ RGB(df.rows[1]) = <<0, 255, 0>>
    /\ df.rows[2]["RSRP (dBm)"].v = -136 /\ RGB(df.rows[2]) = <<255, 0, 0>>

\* C8: the colours are monotonic in signal strength: of two returned rows
\* the one with the lower rsrp has r at least as large and g at most as
\* large, and r and g lie in 0..255.
C8_Monotonic ==
    Returned =>
        /\ \A i \in DOMAIN df.rows :
              df.rows[i]["r"].v \in 0..255 /\ df.rows[i]["g"].v \in 0..255
        /\ \A i, j \in DOMAIN df.rows :
              df.rows[i]["RSRP (dBm)"].v < df.rows[j]["RSRP (dBm)"].v =>
                  /\ df.rows[i]["r"].v >= df.rows[j]["r"].v
                  /\ df.rows[i]["g"].v <= df.rows[j]["g"].v

\* two rows inside the window whose colours differ strictly
C8_Witness ==
    /\ Returned
    /\ Len(df.rows) = 2
    /\ df.rows[1]["RSRP (dBm)"].v = -130 /\ df.rows[2]["RSRP (dBm)"].v = -120
    /\ df.rows[1]["r"].v > df.rows[2]["r"].v
    /\ df.rows[1]["g"].v < df.rows[2]["g"].v

Abs(x) == IF x < 0 THEN -x ELSE x

\* the span of the returned rows is s: no two rows are further apart in
\* latitude or longitude, and two rows are exactly s apart
SpanIs(s) ==
    /\ \A i, j \in DOMAIN df.rows :
          /\ Abs(df.rows[i]["lat"].v - df.rows[j]["lat"].v) <= s
          /\ Abs(df.rows[i]["lon"].v - df.rows[j]["lon"].v) <= s
    /\ \E i, j \in DOMAIN df.rows :
          \/ Abs(df.rows[i]["lat"].v - df.rows[j]["lat"].v) = s
          \/ Abs(df.rows[i]["lon"].v - df.rows[j]["lon"].v) = s

SpanBelow(s) ==
    \A i, j \in DOMAIN df.rows :
        /\ Abs(df.rows[i]["lat"].v - df.rows[j]["lat"].v) < s
        /\ Abs(df.rows[i]["lon"].v - df.rows[j]["lon"].v) < s

\* C9: the zoom depends on the span only, by half-open brackets: below 0.01
\* it is 15, from 0.01 and below 0.1 it is 12, from 0.1 and below 1 it is 9,
\* from 1 and below 5 it is 6, from 5 on it is 3; one row gives 15.
C9_ZoomBrackets ==
    Ran("compute_view") =>
        /\ SpanBelow(10) => view.zoom = 15
        /\ (~SpanBelow(10) /\ SpanBelow(100)) => view.zoom = 12
        /\ (~SpanBelow(100) /\ SpanBelow(1000)) => view.zoom = 9
        /\ (~SpanBelow(1000) /\ SpanBelow(5000)) => view.zoom = 6
        /\ ~SpanBelow(5000) => view.zoom = 3
        /\ Len(df.rows) = 1 => view.zoom = 15

\* a span exactly on the first threshold, taken from the latitudes while the
\* longitudes agree
C9_Witness ==
    /\ Ran("compute_view")
    /\ SpanIs(10)
    /\ view.zoom = 12

\* C10: when all three fields resolve and the columns are numeric,
\* validate_and_prepare either returns a non-empty record set or raises
\* NoValidData; in particular the rename never fails, also when another
\* column already carries a canonical name.
C10_TwoOutcomes ==
    (AllResolved /\ file.str = {} /\ pc \in {"stopped", "done"}) =>
        \/ Returned /\ Len(df.rows) > 0
        \/ shown = <<"error: no valid rows">>

====
